---------------------------- MODULE Spec2Model ----------------------------
(***************************************************************************)
(* The candidate branch of libbitcoin-blockchain (src/pools/branch.cpp):   *)
(* a fork height plus a list of blocks grown at its oldest end, the        *)
(* height/index translation, the prevout resolver, the spent detector and  *)
(* the historical header accessors.                                        *)
(*                                                                         *)
(* Blocks, transactions, outputs and points are the value types of         *)
(* libbitcoin (another repository).  They are represented by records that  *)
(* carry the fields branch.cpp reads.  A hash digest is a natural number,  *)
(* null_hash is 0.                                                         *)
(***************************************************************************)
EXTENDS Integers, Sequences, FiniteSets

VARIABLES
    height_,    \* branch::height_: the height of the fork point
    blocks_,    \* branch::blocks_: index 1 here is C++ index 0 (front)
    accepted,   \* history: the blocks push_front accepted, in call order
    op,         \* the member function called last
    arg,        \* its argument
    ret,        \* its return value
    out,        \* the caller's out_bits/out_version/out_timestamp/out_hash
    outpoint    \* the caller's output_point, with its validation metadata

vars == <<height_, blocks_, accepted, op, arg, ret, out, outpoint>>

---------------------------------------------------------------------------
(* Bounds of the model.                                                    *)

\* Fork heights range over 0..MaxHeight.
MaxHeight == 1

\* Declared previous-block hashes of the blocks offered range over
\* 0..MaxPrevHash.
MaxPrevHash == 7

---------------------------------------------------------------------------
(* Sentinels of libbitcoin.  The all-ones words (max_uint32, max_uint64,   *)
(* max_size_t) do not fit TLC's integers; each is represented by the       *)
(* largest integer TLC has, which no index, value or height of the model   *)
(* comes near.                                                             *)

null_hash == 0

\* point::null_index, max_uint32
null_index == 2147483647

\* output::not_found, the value of a default constructed output
not_found == 2147483647

\* output_point::validation_type::not_specified
not_specified == 2147483647

\* The marker a caller sees when safe_add/safe_subtract throw.
Thrown == -1

---------------------------------------------------------------------------
(* The values offered to the branch.                                       *)

\* chain::output{}: no value, empty script
NoOutput == [value |-> not_found, script |-> 0]

\* output::is_valid
is_valid(output) == output.value # not_found

\* point::is_null
is_null(point) == point.index = null_index /\ point.hash = null_hash

NullPoint == [hash |-> null_hash, index |-> null_index]

Out50 == [value |-> 50, script |-> 1]
Out25 == [value |-> 25, script |-> 2]
Out10 == [value |-> 10, script |-> 3]

\* Transaction 1 as a coinbase, with one output.
TxA == [hash |-> 1, inputs |-> <<NullPoint>>, outputs |-> <<Out50>>]
\* The same transaction id with other outputs (the duplicate of BIP30).
TxB == [hash |-> 1, inputs |-> <<NullPoint>>, outputs |-> <<Out25, Out10>>]
\* Transaction 2 spends output (1, 0).
TxC == [hash |-> 2, inputs |-> <<[hash |-> 1, index |-> 0]>>,
        outputs |-> <<Out10>>]
\* Transaction 2 spends outputs (1, 1) and (2, 0).
TxD == [hash |-> 2,
        inputs |-> <<[hash |-> 1, index |-> 1], [hash |-> 2, index |-> 0]>>,
        outputs |-> <<Out50, Out25>>]

\* The transaction lists of the blocks offered.  Every block has at least
\* one transaction (branch.cpp:202 asserts it) and every output is valid:
\* the organizer only offers blocks that passed block.check().
TxLists ==
    << <<TxA>>, <<TxB>>, <<TxA, TxC>>,
       <<TxC, TxA>>, <<TxA, TxB>>, <<TxB, TxD>> >>

NumTxLists == Len(TxLists)

\* The header of the block that declares `prev` and commits to TxLists[k].
\* The merkle root is the index k.
Header(prev, k) ==
    [version |-> 1 + (k % 2),
     previous_block_hash |-> prev,
     merkle |-> k,
     timestamp |-> 1231006505 + 600 * k,
     bits |-> IF k % 3 = 0 THEN 536936447 ELSE 545259519]

Block(prev, k) == [header |-> Header(prev, k), transactions |-> TxLists[k]]

\* The blocks of the pool.
BlockPool == {Block(prev, k) : prev \in 0..MaxPrevHash, k \in 1..NumTxLists}

\* A block_const_ptr that holds no block (nullptr).
NullBlock == [null |-> TRUE]

\* The pointers a caller may hand to push_front.
BlockPointers == BlockPool \cup {NullBlock}

\* header::hash: a digest that no two headers of the pool share and that is
\* never null_hash.
HashOf(header) == header.previous_block_hash * NumTxLists + header.merkle

\* block::hash is the hash of the block's header.
BlockHash(block) == HashOf(block.header)

\* header::proof(bits): 2^256 / (target + 1) of the two compact targets
\* used, 0x207fffff and 0x2000ffff.
Proof(block) == IF block.header.bits = 545259519 THEN 2 ELSE 256

\* The output points asked about.
Points == {NullPoint} \cup {[hash |-> h, index |-> i] : h \in {1, 2},
                                                        i \in {0, 1}}

\* validation metadata of a fresh output_point
FreshValidation ==
    [spent |-> FALSE, confirmed |-> FALSE,
     height |-> not_specified, cache |-> NoOutput]

\* validation metadata left on an output_point by an earlier use
UsedValidation ==
    [spent |-> TRUE, confirmed |-> FALSE, height |-> 7, cache |-> Out50]

Validations == {FreshValidation, UsedValidation}

\* The point of a call that takes no output_point.
NoPoint == [hash |-> null_hash, index |-> null_index,
            validation |-> FreshValidation]

\* What the caller's header slot holds before an accessor call.
SlotValues == {0, 99}

\* What a read past the end of the block list may copy out.
StrayWord == 99

\* The heights the accessors are asked about.
QueryHeights == 0..(MaxHeight + 3)

---------------------------------------------------------------------------
(* Branch store.                                                           *)

empty == blocks_ = <<>>

size == Len(blocks_)

height == height_

\* The frame of a call: what the caller holds when the call has returned.
Return(name, a, r, o, p) ==
    /\ op' = name
    /\ arg' = a
    /\ ret' = r
    /\ out' = o
    /\ outpoint' = p

Running == op # "crashed"

\* A member access through a null block pointer: the process faults.
null_dereference ==
    /\ UNCHANGED <<height_, blocks_, accepted>>
    /\ Return("crashed", 0, FALSE, 0, NoPoint)

\* branch::set_height
set_height(h) ==
    /\ Running
    /\ height_' = h
    /\ UNCHANGED <<blocks_, accepted>>
    /\ Return("set_height", h, FALSE, 0, NoPoint)

linked_reversed(block) ==
    block.header.previous_block_hash = BlockHash(blocks_[1])

linked_always(block) == TRUE

\* the lambda `linked` of push_front
linked(block) ==
    LET front == blocks_[1].header
    IN  front.previous_block_hash = BlockHash(block)

insert_back(block) == Append(blocks_, block)

\* blocks_->insert(blocks_->begin(), block)
insert_front(block) == <<block>> \o blocks_

push_front_mutating(block) ==
    /\ Running
    /\ IF ~empty /\ (blocks_[1] = NullBlock \/ block = NullBlock)
       THEN null_dereference
       ELSE /\ blocks_' = insert_front(block)
            /\ accepted' = IF empty \/ linked(block)
                           THEN Append(accepted, block) ELSE accepted
            /\ UNCHANGED height_
            /\ Return("push_front", block, empty \/ linked(block), 0,
                      NoPoint)

\* branch::push_front.  `linked` is evaluated only when the branch is not
\* empty; it reads blocks_->front()->header() and block->hash(), through
\* either pointer.
push_front(block) ==
    /\ Running
    /\ IF ~empty /\ (blocks_[1] = NullBlock \/ block = NullBlock)
       THEN null_dereference
       ELSE IF empty \/ linked(block)
            THEN /\ blocks_' = insert_front(block)
                 /\ accepted' = Append(accepted, block)
                 /\ UNCHANGED height_
                 /\ Return("push_front", block, TRUE, 0, NoPoint)
            ELSE /\ UNCHANGED <<height_, blocks_, accepted>>
                 /\ Return("push_front", block, FALSE, 0, NoPoint)

\* branch::top; nullptr when empty
top ==
    /\ Running
    /\ UNCHANGED <<height_, blocks_, accepted>>
    /\ Return("top", 0, IF empty THEN NullBlock ELSE blocks_[Len(blocks_)],
              0, NoPoint)

top_height_next == height + size + 1

\* the value of branch::top_height
top_height_value == height + size

\* branch::top_height
top_height ==
    /\ Running
    /\ UNCHANGED <<height_, blocks_, accepted>>
    /\ Return("top_height", 0, top_height_value, 0, NoPoint)

\* branch::hash
hash == IF empty THEN null_hash ELSE blocks_[1].header.previous_block_hash

\* branch::fork_point; hash() reads blocks_->front()->header()
fork_point ==
    /\ Running
    /\ IF ~empty /\ blocks_[1] = NullBlock
       THEN null_dereference
       ELSE /\ UNCHANGED <<height_, blocks_, accepted>>
            /\ Return("fork_point", 0, [hash |-> hash, height |-> height],
                      0, NoPoint)

---------------------------------------------------------------------------
(* Height/index translator.                                                *)

\* safe_subtract of libbitcoin: throws on underflow
safe_subtract(left, right) ==
    IF left = Thrown \/ left < right THEN Thrown ELSE left - right

\* safe_add of libbitcoin; it throws past max_size_t, which no height of
\* the model comes near
safe_add(left, right) == left + right

index_of_next(h) == safe_subtract(h, height_)

\* branch::index_of
index_of(h) == safe_subtract(safe_subtract(h, height_), 1)

height_at_fork(index) == safe_add(index, height_)

\* branch::height_at
height_at(index) == safe_add(safe_add(index, height_), 1)

---------------------------------------------------------------------------
(* Work accumulator.                                                       *)

RECURSIVE total_work(_, _)
\* the loop of branch::work over the first n blocks
total_work(blocks, n) ==
    IF n = 0 THEN 0 ELSE total_work(blocks, n - 1) + Proof(blocks[n])

\* branch::work; block->proof() is read through every pointer
work ==
    /\ Running
    /\ IF \E i \in 1..Len(blocks_) : blocks_[i] = NullBlock
       THEN null_dereference
       ELSE /\ UNCHANGED <<height_, blocks_, accepted>>
            /\ Return("work", 0, total_work(blocks_, Len(blocks_)), 0,
                      NoPoint)

---------------------------------------------------------------------------
(* Spent detector.                                                         *)

RECURSIVE any_input(_, _, _)
\* std::any_of over tx.inputs() from input i on, with prevout_match
any_input(inputs, point, i) ==
    IF i > Len(inputs) THEN FALSE
    ELSE IF inputs[i].hash = point.hash /\ inputs[i].index = point.index
         THEN TRUE
         ELSE any_input(inputs, point, i + 1)

RECURSIVE any_transaction(_, _, _)
\* std::any_of over the transactions from position `first` on
any_transaction(txs, point, first) ==
    IF first > Len(txs) THEN FALSE
    ELSE IF any_input(txs[first].inputs, point, 1)
         THEN TRUE
         ELSE any_transaction(txs, point, first + 1)

RECURSIVE any_block(_, _)
\* std::any_of over the blocks from `first` on; txs.begin() + 1 is the
\* second transaction
any_block(point, first) ==
    IF first > Len(blocks_) THEN FALSE
    ELSE IF any_transaction(blocks_[first].transactions, point, 2)
         THEN TRUE
         ELSE any_block(point, first + 1)

spent_from_begin(point) == any_block(point, 1)

\* std::any_of(blocks_->begin() + 1, blocks_->end(), blocks)
spent_in_branch(point) == any_block(point, 2)

\* what branch::populate_spent leaves in outpoint.validation
spent_validation(point, validation) ==
    IF size < 2
    THEN [validation EXCEPT !.spent = FALSE, !.confirmed = FALSE]
    ELSE LET spent == spent_in_branch(point)
         IN  [validation EXCEPT !.spent = spent, !.confirmed = spent]

RECURSIVE spent_scan_reads_null(_, _)
\* std::any_of from block `first` on reaches a null pointer before a block
\* that spends the point: block->transactions() is read through it
spent_scan_reads_null(point, first) ==
    IF first > Len(blocks_) THEN FALSE
    ELSE IF blocks_[first] = NullBlock THEN TRUE
    ELSE IF any_transaction(blocks_[first].transactions, point, 2)
         THEN FALSE
         ELSE spent_scan_reads_null(point, first + 1)

\* branch::populate_spent
populate_spent(point, validation) ==
    /\ Running
    /\ IF size >= 2 /\ spent_scan_reads_null(point, 2)
       THEN null_dereference
       ELSE /\ UNCHANGED <<height_, blocks_, accepted>>
            /\ Return("populate_spent", validation, FALSE, 0,
                      [hash |-> point.hash, index |-> point.index,
                       validation |-> spent_validation(point, validation)])

---------------------------------------------------------------------------
(* Prevout resolver.                                                       *)

\* `return{}` of get_output: a value-initialized result
NoResult == [height |-> 0, position |-> 0, out |-> NoOutput]

RECURSIVE find_position(_, _, _)
\* the inner loop of get_output: the first position >= `position` (counted
\* from 0) whose transaction matches, or txs.size() when none does
find_position(txs, point, position) ==
    IF position >= Len(txs) THEN Len(txs)
    ELSE LET tx == txs[position + 1]
         IN  IF point.hash = tx.hash /\ point.index < Len(tx.outputs)
             THEN position
             ELSE find_position(txs, point, position + 1)

forward_index(count, forward) == forward

\* const size_t index = count - forward - 1u
reverse_index(count, forward) == count - forward - 1

RECURSIVE get_output(_, _, _)
\* the outer loop of get_output, from `forward` on
get_output(point, count, forward) ==
    IF forward >= count THEN NoResult
    ELSE LET index == reverse_index(count, forward)
             txs == blocks_[index + 1].transactions
             position == find_position(txs, point, 0)
         IN  IF position < Len(txs)
             THEN [height |-> height_at(index),
                   position |-> position,
                   out |-> txs[position + 1].outputs[point.index + 1]]
             ELSE get_output(point, count, forward + 1)

\* what branch::populate_prevout leaves in outpoint.validation
prevout_validation(point, validation) ==
    LET cleared == [validation EXCEPT !.cache = NoOutput,
                                      !.height = not_specified]
    IN  IF is_null(point) THEN cleared
        ELSE LET finder == get_output(point, size, 0)
             IN  IF ~is_valid(finder.out) THEN cleared
                 ELSE [cleared EXCEPT
                         !.cache = finder.out,
                         !.height = IF finder.position = 0
                                    THEN finder.height ELSE @]

RECURSIVE prevout_scan_reads_null(_, _, _)
\* the outer loop of get_output reaches a null pointer before a block that
\* holds a match: blocks[index]->transactions() is read through it
prevout_scan_reads_null(point, count, forward) ==
    IF forward >= count THEN FALSE
    ELSE LET index == reverse_index(count, forward)
         IN  IF blocks_[index + 1] = NullBlock THEN TRUE
             ELSE LET txs == blocks_[index + 1].transactions
                  IN  IF find_position(txs, point, 0) < Len(txs)
                      THEN FALSE
                      ELSE prevout_scan_reads_null(point, count,
                                                   forward + 1)

\* branch::populate_prevout; the null point returns before the scan
populate_prevout(point, validation) ==
    /\ Running
    /\ IF ~is_null(point) /\ prevout_scan_reads_null(point, size, 0)
       THEN null_dereference
       ELSE /\ UNCHANGED <<height_, blocks_, accepted>>
            /\ Return("populate_prevout", validation, FALSE, 0,
                      [hash |-> point.hash, index |-> point.index,
                       validation |-> prevout_validation(point, validation)])

---------------------------------------------------------------------------
(* Historical header accessors.                                            *)

\* (*blocks_)[index] with index >= size(): the read is past the end of the
\* vector, which is undefined.  The word read may be null, may be taken for
\* a block whose field is then copied out, or the read may fault.
stray_read(name, a) ==
    \/ Return(name, a, FALSE, a.slot, NoPoint)
    \/ Return(name, a, TRUE, StrayWord, NoPoint)
    \/ Return("crashed", 0, FALSE, 0, NoPoint)

\* branch::get_bits
get_bits(out_bits, h) ==
    LET a == [height |-> h, slot |-> out_bits]
    IN  /\ Running
        /\ UNCHANGED <<height_, blocks_, accepted>>
        /\ IF h <= height_
           THEN Return("get_bits", a, FALSE, out_bits, NoPoint)
           ELSE IF index_of(h) < size
                THEN IF blocks_[index_of(h) + 1] = NullBlock
                     THEN Return("get_bits", a, FALSE, out_bits, NoPoint)
                     ELSE Return("get_bits", a, TRUE,
                                 blocks_[index_of(h) + 1].header.bits,
                                 NoPoint)
                ELSE stray_read("get_bits", a)

\* branch::get_version
get_version(out_version, h) ==
    LET a == [height |-> h, slot |-> out_version]
    IN  /\ Running
        /\ UNCHANGED <<height_, blocks_, accepted>>
        /\ IF h <= height_
           THEN Return("get_version", a, FALSE, out_version, NoPoint)
           ELSE IF index_of(h) < size
                THEN IF blocks_[index_of(h) + 1] = NullBlock
                     THEN Return("get_version", a, FALSE, out_version, NoPoint)
                     ELSE Return("get_version", a, TRUE,
                                 blocks_[index_of(h) + 1].header.version,
                                 NoPoint)
                ELSE stray_read("get_version", a)

\* branch::get_timestamp
get_timestamp(out_timestamp, h) ==
    LET a == [height |-> h, slot |-> out_timestamp]
    IN  /\ Running
        /\ UNCHANGED <<height_, blocks_, accepted>>
        /\ IF h <= height_
           THEN Return("get_timestamp", a, FALSE, out_timestamp, NoPoint)
           ELSE IF index_of(h) < size
                THEN IF blocks_[index_of(h) + 1] = NullBlock
                     THEN Return("get_timestamp", a, FALSE, out_timestamp, NoPoint)
                     ELSE Return("get_timestamp", a, TRUE,
                                 blocks_[index_of(h) + 1].header.timestamp,
                                 NoPoint)
                ELSE stray_read("get_timestamp", a)

\* branch::get_block_hash
get_block_hash(out_hash, h) ==
    LET a == [height |-> h, slot |-> out_hash]
    IN  /\ Running
        /\ UNCHANGED <<height_, blocks_, accepted>>
        /\ IF h <= height_
           THEN Return("get_block_hash", a, FALSE, out_hash, NoPoint)
           ELSE IF index_of(h) < size
                THEN IF blocks_[index_of(h) + 1] = NullBlock
                     THEN Return("get_block_hash", a, FALSE, out_hash, NoPoint)
                     ELSE Return("get_block_hash", a, TRUE,
                                 BlockHash(blocks_[index_of(h) + 1]),
                                 NoPoint)
                ELSE stray_read("get_block_hash", a)

---------------------------------------------------------------------------
(* The branch as a state machine.                                          *)

\* branch::branch(height)
Init ==
    /\ height_ \in 0..MaxHeight
    /\ blocks_ = <<>>
    /\ accepted = <<>>
    /\ op = "branch"
    /\ arg = 0
    /\ ret = FALSE
    /\ out = 0
    /\ outpoint = NoPoint

Next ==
    \/ \E h \in 0..MaxHeight : set_height(h)
    \/ \E block \in BlockPointers : push_front(block)
    \/ top
    \/ top_height
    \/ fork_point
    \/ work
    \/ \E point \in Points, validation \in Validations :
           populate_spent(point, validation)
    \/ \E point \in Points, validation \in Validations :
           populate_prevout(point, validation)
    \/ \E slot \in SlotValues, h \in QueryHeights : get_bits(slot, h)
    \/ \E slot \in SlotValues, h \in QueryHeights : get_version(slot, h)
    \/ \E slot \in SlotValues, h \in QueryHeights : get_timestamp(slot, h)
    \/ \E slot \in SlotValues, h \in QueryHeights : get_block_hash(slot, h)

Spec == Init /\ [][Next]_vars

---------------------------------------------------------------------------
(* Vocabulary of the properties.                                           *)

Accessors == {"get_bits", "get_version", "get_timestamp", "get_block_hash"}

\* The header field an accessor copies out of a block.
FieldOf(name, block) ==
    CASE name = "get_bits" -> block.header.bits
      [] name = "get_version" -> block.header.version
      [] name = "get_timestamp" -> block.header.timestamp
      [] name = "get_block_hash" -> BlockHash(block)

\* Transaction tx creates the output the point refers to.
Creates(tx, point) == tx.hash = point.hash /\ point.index < Len(tx.outputs)

\* The block at i (counted from 1) holds a transaction that creates it.
Holds(i, point) ==
    /\ blocks_[i] # NullBlock
    /\ \E p \in 1..Len(blocks_[i].transactions) :
           Creates(blocks_[i].transactions[p], point)

Found(point) == \E i \in 1..Len(blocks_) : Holds(i, point)

\* The newest block that holds a match, and the first match in it.
Newest(point) ==
    CHOOSE i \in 1..Len(blocks_) :
        Holds(i, point) /\ \A j \in (i + 1)..Len(blocks_) : ~Holds(j, point)

FirstIn(i, point) ==
    CHOOSE p \in 1..Len(blocks_[i].transactions) :
        /\ Creates(blocks_[i].transactions[p], point)
        /\ \A q \in 1..(p - 1) : ~Creates(blocks_[i].transactions[q], point)

\* Some input of a transaction after the first, in a block after the
\* oldest, refers to the point.
SpentAboveOldest(point) ==
    \E i \in {j \in 2..Len(blocks_) : blocks_[j] # NullBlock} :
        \E p \in 2..Len(blocks_[i].transactions) :
            \E n \in 1..Len(blocks_[i].transactions[p].inputs) :
                LET input == blocks_[i].transactions[p].inputs[n]
                IN  input.hash = point.hash /\ input.index = point.index

Queried == [hash |-> outpoint.hash, index |-> outpoint.index]

---------------------------------------------------------------------------
(* The properties.                                                         *)

\* C1: push_front on an empty branch accepts any block as the sole
\* element; on a non-empty branch it inserts the block at the front and
\* returns true exactly when the block's hash is the previous-block hash
\* declared by the front block; otherwise it returns false and leaves the
\* blocks and the fork height as they were.
C1_GrowFront ==
    [][op' = "push_front" =>
        IF blocks_ = <<>>
        THEN ret' = TRUE /\ blocks_' = <<arg'>>
        ELSE IF BlockHash(arg') = blocks_[1].header.previous_block_hash
             THEN ret' = TRUE /\ blocks_' = <<arg'>> \o blocks_
             ELSE ret' = FALSE /\ blocks_' = blocks_ /\ height_' = height_
      ]_vars

C1_Witness ==
    /\ op = "push_front"
    /\ ret = TRUE
    /\ Len(blocks_) = 3
    /\ blocks_[1] = arg

\* C2: in every reachable state each block after the first declares the
\* hash of the block before it as its previous-block hash.
C2_Linked ==
    \A i \in 1..(Len(blocks_) - 1) :
        blocks_[i + 1].header.previous_block_hash = BlockHash(blocks_[i])

C2_Witness ==
    /\ op = "push_front"
    /\ ret = FALSE
    /\ Len(blocks_) = 3

\* C3: for a point that is not null, populate_prevout caches the output at
\* the point's index of the first matching transaction of the newest block
\* that holds a match; when no block holds one the cache stays "not found"
\* and the height stays unset.
C3_NewestMatch ==
    (op = "populate_prevout" /\ ~is_null(Queried)) =>
        IF Found(Queried)
        THEN LET i == Newest(Queried)
                 p == FirstIn(i, Queried)
             IN  outpoint.validation.cache =
                     blocks_[i].transactions[p].outputs[Queried.index + 1]
        ELSE /\ outpoint.validation.cache = NoOutput
             /\ outpoint.validation.height = not_specified

\* Two blocks hold the transaction id with different outputs at the index,
\* and the newer one's output is cached.
C3_Witness ==
    /\ op = "populate_prevout"
    /\ ~is_null(Queried)
    /\ \E i \in 1..Len(blocks_) : \E j \in (i + 1)..Len(blocks_) :
          /\ Holds(i, Queried)
          /\ Holds(j, Queried)
          /\ j = Newest(Queried)
          /\ blocks_[i].transactions[FirstIn(i, Queried)]
                 .outputs[Queried.index + 1]
               # blocks_[j].transactions[FirstIn(j, Queried)]
                     .outputs[Queried.index + 1]
          /\ outpoint.validation.cache =
                 blocks_[j].transactions[FirstIn(j, Queried)]
                     .outputs[Queried.index + 1]

\* C4: populate_spent sets spent and confirmed to the same value, true
\* exactly when an input of a transaction other than the first, in a block
\* other than the oldest, refers to the point.
C4_SpentRange ==
    op = "populate_spent" =>
        /\ outpoint.validation.spent = outpoint.validation.confirmed
        /\ outpoint.validation.spent = SpentAboveOldest(Queried)

\* The spend is in the tip, and the call found the metadata of an earlier
\* use on the point.
C4_Witness ==
    /\ op = "populate_spent"
    /\ Len(blocks_) >= 2
    /\ outpoint.validation.spent = TRUE
    /\ outpoint.validation.confirmed = TRUE
    /\ \E p \in 2..Len(blocks_[Len(blocks_)].transactions) :
          \E n \in 1..Len(blocks_[Len(blocks_)].transactions[p].inputs) :
              blocks_[Len(blocks_)].transactions[p].inputs[n] = Queried

\* C5: an accessor asked for a height outside the branch (at or below the
\* fork height, or above the top height) returns false and leaves the
\* caller's slot as it was.
C5_OutsideFails ==
    (op \in Accessors /\
     (arg.height <= height_ \/ arg.height > height_ + Len(blocks_))) =>
        ret = FALSE /\ out = arg.slot

\* C6: populate_prevout sets the height exactly when a match was found and
\* the matching transaction is the first of its block, and then to
\* height_ + index + 1 of that block; for the null point the cache is "not
\* found"; no height of a block of the branch equals the unset marker.
C6_CoinbaseHeight ==
    op = "populate_prevout" =>
        LET found == ~is_null(Queried) /\ Found(Queried)
            set == outpoint.validation.height # not_specified
        IN  /\ set <=> (found /\ FirstIn(Newest(Queried), Queried) = 1)
            /\ set => outpoint.validation.height
                        = height_ + (Newest(Queried) - 1) + 1
            /\ is_null(Queried) => outpoint.validation.cache = NoOutput
            /\ \A i \in 0..(Len(blocks_) - 1) :
                   height_ + i + 1 # not_specified

\* A coinbase match in the second block of a branch forked at 0.
C6_Witness ==
    /\ op = "populate_prevout"
    /\ height_ = 0
    /\ Found(Queried)
    /\ Newest(Queried) = 2
    /\ FirstIn(2, Queried) = 1
    /\ outpoint.validation.height = 2

\* C7 as stated: an accessor asked for a height h inside the branch,
\* height_ < h <= height_ + size, returns true and writes the field of the
\* block at index h - height_ - 1, where index 0 is the block accepted last
\* and the last index is the block accepted first.
C7_AsStated ==
    /\ \A i \in 1..Len(blocks_) :
           i <= Len(accepted) /\ blocks_[i] = accepted[Len(accepted) - i + 1]
    /\ (op \in Accessors /\ height_ < arg.height
          /\ arg.height <= height_ + Len(blocks_)) =>
           /\ ret = TRUE
           /\ out = FieldOf(op, blocks_[arg.height - height_])

\* C7 amended: an accessor asked for a height h inside the branch reads
\* the pointer at index h - height_ - 1, where index 0 is the pointer
\* accepted last and the last index is the pointer accepted first; when it
\* holds a block the accessor returns true and writes that block's field,
\* and when it is null (accepted by an empty branch) the accessor returns
\* false and leaves the slot as it was.
C7_InsideReads ==
    /\ \A i \in 1..Len(blocks_) :
           i <= Len(accepted) /\ blocks_[i] = accepted[Len(accepted) - i + 1]
    /\ (op \in Accessors /\ height_ < arg.height
          /\ arg.height <= height_ + Len(blocks_)) =>
           IF blocks_[arg.height - height_] = NullBlock
           THEN ret = FALSE /\ out = arg.slot
           ELSE /\ ret = TRUE
                /\ out = FieldOf(op, blocks_[arg.height - height_])

\* The bits of the block accepted first of three, which differ from the
\* bits of the block below it.
C7_Witness ==
    /\ op = "get_bits"
    /\ Len(blocks_) = 3
    /\ arg.height = height_ + 3
    /\ ret = TRUE
    /\ out = accepted[1].header.bits
    /\ out # blocks_[2].header.bits

\* C8: the size is the number of push_front calls that returned true, and
\* top_height returns the fork height plus that number.
C8_TopHeight ==
    /\ Len(blocks_) = Len(accepted)
    /\ op = "top_height" => ret = height_ + Len(accepted)

C8_Witness ==
    /\ op = "top_height"
    /\ Len(accepted) = 3
    /\ height_ = 1
    /\ ret = 4

\* C9: every step leaves the blocks as they were or puts the accepted
\* block in front of them, and the last block of a branch that is not
\* empty never changes.
C9_FrontOnly ==
    [][/\ \/ blocks_' = blocks_
          \/ /\ op' = "push_front"
             /\ ret' = TRUE
             /\ blocks_' = <<arg'>> \o blocks_
       /\ blocks_ # <<>> =>
             /\ blocks_' # <<>>
             /\ blocks_'[Len(blocks_')] = blocks_[Len(blocks_)]
      ]_vars

\* top returns the block accepted first after two more were accepted.
C9_Witness ==
    /\ op = "top"
    /\ Len(blocks_) = 3
    /\ ret = accepted[1]

\* C10 as stated: on a non-empty branch push_front rejects every block
\* whose declared previous-block hash is not the hash of the front block,
\* and leaves the branch as it was.
C10_AsStated ==
    [][(/\ op' = "push_front"
        /\ blocks_ # <<>>
        /\ arg'.header.previous_block_hash # BlockHash(blocks_[1])) =>
            /\ ret' = FALSE
            /\ blocks_' = blocks_
            /\ height_' = height_
      ]_vars

\* C10 amended: on a non-empty branch push_front rejects every block whose
\* hash is not the previous-block hash declared by the front block, and
\* leaves the branch as it was.
C10_Rejects ==
    [][(/\ op' = "push_front"
        /\ blocks_ # <<>>
        /\ BlockHash(arg') # blocks_[1].header.previous_block_hash) =>
            /\ ret' = FALSE
            /\ blocks_' = blocks_
            /\ height_' = height_
            /\ accepted' = accepted
      ]_vars

\* A block was rejected by a branch of two blocks.
C10_Witness ==
    /\ op = "push_front"
    /\ ret = FALSE
    /\ Len(blocks_) = 2
    /\ BlockHash(arg) # blocks_[1].header.previous_block_hash

=============================================================================
